---- MODULE Spec2Model ----
(***************************************************************************)
(* Unified City Commute (metro + optional cab) booking form, src/app.py.   *)
(*                                                                         *)
(* The script of app.py runs top to bottom once per user interaction (one  *)
(* "render pass").  What survives from one pass to the next is the session *)
(* flag show_cab_details and the values held by the rendered widgets.      *)
(* Every action below is one interaction followed by the whole script run  *)
(* it causes (operator Script).                                            *)
(***************************************************************************)
EXTENDS Integers, Sequences, FiniteSets, TLC

\* ------------------------------------------------------------------------
\* Bounds of the model
\* ------------------------------------------------------------------------
\* longest passenger name typed, in characters
MaxNameLen == 1
\* how many entries of STATIONS / LOCATIONS the select boxes offer
NumStations == 2
NumLocations == 2
\* largest passenger count entered in the specification that carries the
\* history variable
HistMaxCount == 2

\* ------------------------------------------------------------------------
\* Constants and data of app.py
\* ------------------------------------------------------------------------
METRO_PRICE == 30

CAR_TYPES == <<"Mini", "Sedan", "SUV">>

CAB_RATES == [c \in {"Mini", "Sedan", "SUV"} |->
                 CASE c = "Mini" -> 40 [] c = "Sedan" -> 60 [] c = "SUV" -> 90]

STATIONS == <<"Ameerpet", "KPHB", "Kukatpally", "Madhapur", "Hitech City", "Raidurg">>

LOCATIONS == <<"Office", "Home", "Shopping Mall", "Hospital", "College", "Hotel">>

\* number_input(min_value=1, max_value=10, step=1)
MIN_COUNT == 1
MAX_COUNT == 10

\* str(uuid.uuid4())[:8]
ID_LEN == 8

\* characters a name is typed from; the first two are whitespace to strip()
NameChars == {" ", "A"}
Whitespace == {" ", "\t", "\n"}

\* Three values str(uuid.uuid4()) can return, as far as their 10th character
\* (the 9th is the first hyphen of the 36-character form).  The first two are
\* different UUIDs that agree on their first eight characters.
UUIDS == { <<"3", "f", "a", "0", "1", "b", "2", "c", "-", "9">>,
           <<"3", "f", "a", "0", "1", "b", "2", "c", "-", "7">>,
           <<"d", "4", "1", "e", "7", "7", "a", "0", "-", "1">> }

\* ------------------------------------------------------------------------
\* Values standing for "nothing rendered"
\* ------------------------------------------------------------------------
NoText == "<none>"
\* a text is held as the tuple of its lines (the text split at "\n")
NoLines == <<>>
NoLabel == "<no button>"

EmptyNameMsg == "Passenger name is required."
SameStationMsg == "Source and destination stations must be different."
\* the two labels of the primary button (each carries a leading ticket emoji
\* in app.py, left out here)
BookBothLabel == "Book Metro & Cab"
BookMetroLabel == "Book Metro Only"

\* ------------------------------------------------------------------------
\* State
\* ------------------------------------------------------------------------
VARIABLES
    show_cab_details,     \* st.session_state.show_cab_details
    passenger_name,       \* value of the "Passenger Name" text input
    source_station,       \* value of the "Source Station" select box
    destination_station,  \* value of the "Destination Station" select box
    ticket_count,         \* value of the "Number of Passengers" input
    drop_widget,          \* value held by the "Drop Location" select box
    car_widget,           \* value held by the "Select Car Type" select box
    \* locals of the last script run and what it rendered
    metro_fare, cab_pickup, cab_drop, cab_fare, selected_car, grand_total,
    ticket_id, btn_text,
    error_msg,            \* text of st.error, NoText when none was shown
    ticket_text,          \* lines of st.text(ticket_text), NoLines when none
    voice_msg,            \* sentence given to generate_voice_audio
    qr_data,              \* lines of the text given to generate_qr_code
    png_name, txt_name,   \* file names of the two download buttons
    interaction,          \* what caused the last script run
    remembered            \* history: the ticket of one earlier run, or NoTicket

widgets == <<passenger_name, source_station, destination_station, ticket_count,
             drop_widget, car_widget>>
locals == <<metro_fare, cab_pickup, cab_drop, cab_fare, selected_car, grand_total,
            ticket_id, btn_text>>
rendered == <<error_msg, ticket_text, voice_msg, qr_data, png_name, txt_name>>
vars == <<show_cab_details, widgets, locals, rendered, interaction, remembered>>

\* ------------------------------------------------------------------------
\* Pure helpers
\* ------------------------------------------------------------------------
Range(s) == {s[i] : i \in 1..Len(s)}

Take(s, n) == SubSeq(s, 1, IF n < Len(s) THEN n ELSE Len(s))

\* all character sequences of length at most n
NamesUpTo(n) == UNION {[1..k -> NameChars] : k \in 0..n}

RECURSIVE LStrip(_)
LStrip(s) == IF s # <<>> /\ Head(s) \in Whitespace THEN LStrip(Tail(s)) ELSE s

RECURSIVE RStrip(_)
RStrip(s) == IF s # <<>> /\ s[Len(s)] \in Whitespace
             THEN RStrip(SubSeq(s, 1, Len(s) - 1)) ELSE s

\* str.strip()
Strip(s) == RStrip(LStrip(s))

\* the characters of a sequence as one string
RECURSIVE Join(_)
Join(s) == IF s = <<>> THEN "" ELSE Head(s) \o Join(Tail(s))

\* str.upper() on one character of a UUID
UpperChar(c) == CASE c = "a" -> "A" [] c = "b" -> "B" [] c = "c" -> "C"
                  [] c = "d" -> "D" [] c = "e" -> "E" [] c = "f" -> "F"
                  [] OTHER -> c

Upper(s) == [i \in 1..Len(s) |-> UpperChar(s[i])]

\* str(uuid.uuid4())[:8].upper()
TicketIdOf(uuid) == Join(Upper(Take(uuid, ID_LEN)))

TICKET_IDS == {TicketIdOf(u) : u \in UUIDS}

\* ------------------------------------------------------------------------
\* The pieces of one script run
\* ------------------------------------------------------------------------
\* the two `if st.button(...)` of the cab requirement section, in order
ToggleInferred(show, yes_clicked, no_clicked) == yes_clicked /\ ~no_clicked

ButtonsToggle(show, yes_clicked, no_clicked) ==
    LET after_yes == IF yes_clicked THEN TRUE ELSE show
    IN  IF no_clicked THEN FALSE ELSE after_yes

\* cab_pickup, cab_drop, selected_car: their initial values, overwritten when
\* the cab sub-form is rendered
CabPickupFromSource(show, src, dst) == IF show THEN src ELSE "N/A"

CabPickup(show, src, dst) == IF show THEN dst ELSE "N/A"

CabDrop(show, drop) == IF show THEN drop ELSE "N/A"

SelectedCar(show, car) == IF show THEN car ELSE "None"

MetroFare(count) == count * METRO_PRICE

\* cab_fare: 0 unless the sub-form is rendered, then count * CAB_RATES[car]
CabFareStale(show, count, car) == count * CAB_RATES[car]

CabFare(show, count, car) == IF show THEN count * CAB_RATES[car] ELSE 0

GrandTotal(metro, cab) == metro + cab

BtnTextSwapped(show) == IF show THEN BookMetroLabel ELSE BookBothLabel

BtnText(show) == IF show THEN BookBothLabel ELSE BookMetroLabel

\* the if / elif / else of the validation
ValidateNoStrip(name, src, dst) ==
    IF name = <<>> THEN "EmptyName"
    ELSE IF src = dst THEN "SameStation"
    ELSE "Ok"

ValidateNameOnly(name, src, dst) ==
    IF Strip(name) = <<>> THEN "EmptyName" ELSE "Ok"

Validate(name, src, dst) ==
    IF Strip(name) = <<>> THEN "EmptyName"
    ELSE IF src = dst THEN "SameStation"
    ELSE "Ok"

ErrorText(verdict) ==
    CASE verdict = "EmptyName" -> EmptyNameMsg
      [] verdict = "SameStation" -> SameStationMsg
      [] OTHER -> NoText

Rule == "-------------------------"

\* the f-string of the unified ticket, line by line
UnifiedTicket(id, name, src, dst, metro, car, pickup, drop, cab, total) ==
    << "",
       "UNIFIED JOURNEY TICKET",
       Rule,
       "Ticket ID : " \o id,
       "Passenger : " \o Join(name),
       Rule,
       "[METRO]",
       "From      : " \o src,
       "To        : " \o dst,
       "Amount    : ₹" \o ToString(metro),
       Rule,
       "[CAB]",
       "Car Type  : " \o car,
       "Pickup    : " \o pickup,
       "Drop      : " \o drop,
       "Amount    : ₹" \o ToString(cab),
       Rule,
       "GRAND TOTAL : ₹" \o ToString(total),
       Rule,
       "            " >>

\* the f-string of the metro-only ticket, line by line
MetroTicket(id, name, src, dst, count, metro) ==
    << "",
       "METRO TICKET",
       Rule,
       "Ticket ID : " \o id,
       "Passenger : " \o Join(name),
       "From      : " \o src,
       "To        : " \o dst,
       "Tickets   : " \o ToString(count),
       "Amount    : ₹" \o ToString(metro),
       Rule,
       "            " >>

UnifiedVoice(name, src, dst, car, drop, total) ==
    "Hello " \o Join(name) \o ". "
    \o "Your metro from " \o src \o " to " \o dst \o ", "
    \o "and " \o car \o " cab to " \o drop \o " is booked. "
    \o "Total amount is rupees " \o ToString(total) \o "."

MetroVoice(name, src, dst, metro) ==
    "Hello " \o Join(name) \o ". "
    \o "Your metro ticket from " \o src \o " to " \o dst \o " "
    \o "is booked successfully. "
    \o "Total amount is rupees " \o ToString(metro) \o "."

\* a ticket text that also tells whether the session issued a ticket before
TicketTextNumbered(show, id, name, src, dst, count, metro, car, pickup, drop, cab, total) ==
    (IF show
     THEN UnifiedTicket(id, name, src, dst, metro, car, pickup, drop, cab, total)
     ELSE MetroTicket(id, name, src, dst, count, metro))
    \o (IF remembered.id = NoText THEN <<>> ELSE <<"REPEAT BOOKING">>)

\* the branch on st.session_state.show_cab_details that picks the template
TicketText(show, id, name, src, dst, count, metro, car, pickup, drop, cab, total) ==
    IF show
    THEN UnifiedTicket(id, name, src, dst, metro, car, pickup, drop, cab, total)
    ELSE MetroTicket(id, name, src, dst, count, metro)

VoiceMsg(show, name, src, dst, metro, car, drop, total) ==
    IF show
    THEN UnifiedVoice(name, src, dst, car, drop, total)
    ELSE MetroVoice(name, src, dst, metro)

\* whether the run rendered the cab sub-form (the `if` after the cab variables)
CabFormVisible == selected_car # "None"

PngName(id) == "Journey_" \o id \o ".png"

TxtName(id) == "Journey_" \o id \o ".txt"

\* st.button(btn_text) is true in the rerun caused by pressing the button of
\* that label, and in no other
BookClickedSticky(pressed, label) == pressed = label \/ ticket_text # NoLines

BookClicked(pressed, label) == pressed = label

\* ------------------------------------------------------------------------
\* One script run
\* ------------------------------------------------------------------------
\* the widget values as they stand before an interaction
Current == [name |-> passenger_name, src |-> source_station,
            dst |-> destination_station, count |-> ticket_count,
            drop |-> drop_widget, car |-> car_widget]

NoTicket == [id |-> NoText, name |-> <<>>, src |-> NoText, dst |-> NoText,
             count |-> 0, cab |-> FALSE, drop |-> NoText, car |-> NoText,
             text |-> NoLines, voice |-> NoText]

\* the ticket on the page and the booking it was composed from
PageTicket ==
    [id |-> ticket_id, name |-> passenger_name, src |-> source_station,
     dst |-> destination_station, count |-> ticket_count,
     cab |-> show_cab_details, drop |-> cab_drop, car |-> selected_car,
     text |-> ticket_text, voice |-> voice_msg]

\* The whole of app.py for one rerun.  `in` holds the widget values after the
\* user's edit, yes_clicked / no_clicked are the results of the two toggle
\* buttons, `pressed` is the label of the primary button the user pressed
\* (NoLabel when none).  `keep` says whether the history variable may take
\* the ticket of the page this run replaces.
Script(kind, in, yes_clicked, no_clicked, pressed, keep) ==
    \E uuid \in UUIDS :
    LET show == ButtonsToggle(show_cab_details, yes_clicked, no_clicked)
        metro == MetroFare(in.count)
        pickup == CabPickup(show, in.src, in.dst)
        drop == CabDrop(show, in.drop)
        car == SelectedCar(show, in.car)
        cab == CabFare(show, in.count, in.car)
        total == GrandTotal(metro, cab)
        id == TicketIdOf(uuid)
        label == BtnText(show)
        verdict == IF BookClicked(pressed, label)
                   THEN Validate(in.name, in.src, in.dst)
                   ELSE "None"
        booked == verdict = "Ok"
        text == IF booked
                THEN TicketText(show, id, in.name, in.src, in.dst, in.count,
                                metro, car, pickup, drop, cab, total)
                ELSE NoLines
        voice == IF booked
                 THEN VoiceMsg(show, in.name, in.src, in.dst, metro, car, drop, total)
                 ELSE NoText
    IN  /\ interaction' = kind
        /\ show_cab_details' = show
        /\ passenger_name' = in.name
        /\ source_station' = in.src
        /\ destination_station' = in.dst
        /\ ticket_count' = in.count
        \* a select box that is not rendered in a run loses its value and
        \* starts from its first option when it is rendered again
        /\ drop_widget' = IF show THEN in.drop ELSE LOCATIONS[1]
        /\ car_widget' = IF show THEN in.car ELSE CAR_TYPES[1]
        /\ metro_fare' = metro
        /\ cab_pickup' = pickup
        /\ cab_drop' = drop
        /\ selected_car' = car
        /\ cab_fare' = cab
        /\ grand_total' = total
        /\ ticket_id' = id
        /\ btn_text' = label
        /\ error_msg' = ErrorText(verdict)
        /\ ticket_text' = text
        /\ qr_data' = text
        /\ voice_msg' = voice
        /\ png_name' = IF booked THEN PngName(id) ELSE NoText
        /\ txt_name' = IF booked THEN TxtName(id) ELSE NoText
        /\ remembered' \in
               IF keep /\ ticket_text # NoLines
               THEN {remembered, PageTicket}
               ELSE {remembered}

\* ------------------------------------------------------------------------
\* Initial state: the first run of the script in a fresh session
\* ------------------------------------------------------------------------
Init ==
    /\ show_cab_details = FALSE
    /\ passenger_name = <<>>
    /\ source_station = STATIONS[1]
    /\ destination_station = STATIONS[2]
    /\ ticket_count = MIN_COUNT
    /\ drop_widget = LOCATIONS[1]
    /\ car_widget = CAR_TYPES[1]
    /\ metro_fare = MetroFare(MIN_COUNT)
    /\ cab_pickup = "N/A"
    /\ cab_drop = "N/A"
    /\ selected_car = "None"
    /\ cab_fare = 0
    /\ grand_total = GrandTotal(MetroFare(MIN_COUNT), 0)
    /\ ticket_id \in TICKET_IDS
    /\ btn_text = BtnText(FALSE)
    /\ error_msg = NoText
    /\ ticket_text = NoLines
    /\ qr_data = NoLines
    /\ voice_msg = NoText
    /\ png_name = NoText
    /\ txt_name = NoText
    /\ interaction = "load"
    /\ remembered = NoTicket

\* ------------------------------------------------------------------------
\* Interactions
\* ------------------------------------------------------------------------
EditName(names, keep) ==
    \E n \in names :
        /\ n # passenger_name
        /\ Script("edit", [Current EXCEPT !.name = n], FALSE, FALSE, NoLabel, keep)

EditSource(stations, keep) ==
    \E s \in stations :
        /\ s # source_station
        /\ Script("edit", [Current EXCEPT !.src = s], FALSE, FALSE, NoLabel, keep)

EditDestination(stations, keep) ==
    \E s \in stations :
        /\ s # destination_station
        /\ Script("edit", [Current EXCEPT !.dst = s], FALSE, FALSE, NoLabel, keep)

EditCount(counts, keep) ==
    \E n \in counts :
        /\ n # ticket_count
        /\ Script("edit", [Current EXCEPT !.count = n], FALSE, FALSE, NoLabel, keep)

\* the cab sub-form can be edited only while it is on the page
EditDrop(locations, keep) ==
    \E l \in locations :
        /\ show_cab_details
        /\ l # drop_widget
        /\ Script("edit", [Current EXCEPT !.drop = l], FALSE, FALSE, NoLabel, keep)

EditCar(cars, keep) ==
    \E c \in cars :
        /\ show_cab_details
        /\ c # car_widget
        /\ Script("edit", [Current EXCEPT !.car = c], FALSE, FALSE, NoLabel, keep)

ClickYes(keep) == Script("yes", Current, TRUE, FALSE, NoLabel, keep)

ClickNo(keep) == Script("no", Current, FALSE, TRUE, NoLabel, keep)

\* the user presses the primary button, whose label is the one on the page
ClickBook(keep) == Script("book", Current, FALSE, FALSE, btn_text, keep)

\* the download buttons exist only on a page that shows a ticket; pressing
\* one reruns the script with no button of the form pressed
ClickDownload(keep) ==
    /\ ticket_text # NoLines
    /\ Script("download", Current, FALSE, FALSE, NoLabel, keep)

\* ------------------------------------------------------------------------
\* Specifications
\* ------------------------------------------------------------------------
Names == NamesUpTo(MaxNameLen)
Stations == Range(Take(STATIONS, NumStations))
Locations == Range(Take(LOCATIONS, NumLocations))
Counts == MIN_COUNT..MAX_COUNT

Next ==
    \/ EditName(Names, FALSE)
    \/ EditSource(Stations, FALSE)
    \/ EditDestination(Stations, FALSE)
    \/ EditCount(Counts, FALSE)
    \/ EditDrop(Locations, FALSE)
    \/ EditCar(Range(CAR_TYPES), FALSE)
    \/ ClickYes(FALSE)
    \/ ClickNo(FALSE)
    \/ ClickBook(FALSE)
    \/ ClickDownload(FALSE)

Spec == Init /\ [][Next]_vars

\* The same program over a sample of its inputs, with the history variable
\* `remembered` free to take the ticket of any earlier run.
HistNames == {<<>>, <<"A">>}
HistStationSet == {STATIONS[1], STATIONS[2]}
HistLocationSet == {LOCATIONS[1], LOCATIONS[2]}
HistCars == {CAR_TYPES[1], CAR_TYPES[3]}
HistCounts == MIN_COUNT..HistMaxCount

NextHist ==
    \/ EditName(HistNames, TRUE)
    \/ EditSource(HistStationSet, TRUE)
    \/ EditDestination(HistStationSet, TRUE)
    \/ EditCount(HistCounts, TRUE)
    \/ EditDrop(HistLocationSet, TRUE)
    \/ EditCar(HistCars, TRUE)
    \/ ClickYes(TRUE)
    \/ ClickNo(TRUE)
    \/ ClickBook(TRUE)
    \/ ClickDownload(TRUE)

SpecHist == Init /\ [][NextHist]_vars

\* ------------------------------------------------------------------------
\* Properties
\* ------------------------------------------------------------------------
\* the rate table of the fare calculator's description
RefRate(c) == CASE c = "Mini" -> 40 [] c = "Sedan" -> 60 [] c = "SUV" -> 90

HasTicket == ticket_text # NoLines

NothingProduced ==
    /\ ticket_text = NoLines
    /\ qr_data = NoLines
    /\ voice_msg = NoText
    /\ png_name = NoText
    /\ txt_name = NoText

HasCabSection(text) == "[CAB]" \in Range(text)

\* C1: a ticket is on the page only if the input of that run is valid: the
\* name is non-empty after trimming, source and destination differ, and with
\* the cab toggle on the drop is one of LOCATIONS and the car one of the three
\* car types.
TicketOnlyFromValidInput ==
    HasTicket =>
        /\ interaction = "book"
        /\ Strip(passenger_name) # <<>>
        /\ source_station # destination_station
        /\ show_cab_details =>
              /\ cab_drop \in Range(LOCATIONS)
              /\ selected_car \in {"Mini", "Sedan", "SUV"}

TicketWithCabProduced ==
    /\ HasTicket
    /\ show_cab_details
    /\ cab_drop = LOCATIONS[2]
    /\ selected_car = "SUV"

\* C2: the cab toggle starts false, only the YES and NO runs change it (YES
\* makes it true, NO false), every other run (edit, Book that succeeds or
\* fails, download) leaves it as it was, and the cab sub-form is on the page
\* exactly while the toggle is true.
ToggleChangedOnlyByYesNo ==
    /\ ~show_cab_details
    /\ [][ /\ interaction' = "yes" => show_cab_details'
           /\ interaction' = "no" => ~show_cab_details'
           /\ interaction' \notin {"yes", "no"} =>
                  show_cab_details' = show_cab_details
           /\ CabFormVisible' = show_cab_details' ]_vars

ToggleSurvivedFailedBook ==
    /\ show_cab_details
    /\ CabFormVisible
    /\ interaction = "book"
    /\ error_msg # NoText

\* C3: in every run the fares are those of the reference calculator:
\* metro = 30 * n, cab = 0 with the toggle off and n * rate(car) with it on,
\* total = metro + cab, for n in 1..10.
FaresMatchReference ==
    /\ ticket_count \in 1..10
    /\ metro_fare = 30 * ticket_count
    /\ cab_fare = IF show_cab_details
                  THEN ticket_count * RefRate(car_widget)
                  ELSE 0
    /\ grand_total = metro_fare + cab_fare

FareOfTenInSUV ==
    /\ ticket_count = 10
    /\ show_cab_details
    /\ car_widget = "SUV"
    /\ grand_total = 1200

\* C4: a Book run with a name that is empty or all whitespace shows the
\* EmptyName error, produces no ticket, QR text, download or audio, and
\* leaves the toggle and every field value as they were.
BlankNameRejected ==
    [][ (interaction' = "book" /\ Strip(passenger_name) = <<>>) =>
            /\ error_msg' = "Passenger name is required."
            /\ NothingProduced'
            /\ show_cab_details' = show_cab_details
            /\ widgets' = widgets ]_vars

WhitespaceNameRejected ==
    /\ interaction = "book"
    /\ passenger_name = <<" ">>
    /\ error_msg = EmptyNameMsg

\* C5, as claimed: a Book run with source = destination shows the SameStation
\* error whatever the other fields are, and produces no ticket.
SameStationAlwaysReported ==
    (interaction = "book" /\ source_station = destination_station) =>
        /\ error_msg = "Source and destination stations must be different."
        /\ NothingProduced

\* C5, amended: a Book run with source = destination produces no ticket; the
\* error shown is SameStation when the name is non-empty after trimming and
\* EmptyName when it is not.
SameStationRejected ==
    (interaction = "book" /\ source_station = destination_station) =>
        /\ NothingProduced
        /\ error_msg = IF Strip(passenger_name) = <<>>
                       THEN "Passenger name is required."
                       ELSE "Source and destination stations must be different."

SameStationReported ==
    /\ interaction = "book"
    /\ source_station = destination_station
    /\ Strip(passenger_name) # <<>>
    /\ error_msg = SameStationMsg

\* the ticket on the page and an earlier ticket come from the same booking
\* input and carry the same ticket ID
SameBookingAsRemembered ==
    /\ HasTicket
    /\ remembered.id = ticket_id
    /\ remembered.name = passenger_name
    /\ remembered.src = source_station
    /\ remembered.dst = destination_station
    /\ remembered.count = ticket_count
    /\ remembered.cab = show_cab_details
    /\ remembered.drop = cab_drop
    /\ remembered.car = selected_car

\* C6: two successful Book runs with the same booking input and the same
\* ticket ID produce the same ticket text and the same announcement, whatever
\* happened before each of them.
SameBookingSameTicket ==
    SameBookingAsRemembered =>
        /\ remembered.text = ticket_text
        /\ remembered.voice = voice_msg

SameBookingTwice ==
    /\ SameBookingAsRemembered
    /\ show_cab_details
    /\ interaction = "book"

\* within one booking the ticket text and both download names carry the ID
\* generated in that run
TicketIdSharedByArtifacts ==
    HasTicket =>
        /\ ticket_text[4] = "Ticket ID : " \o ticket_id
        /\ png_name = "Journey_" \o ticket_id \o ".png"
        /\ txt_name = "Journey_" \o ticket_id \o ".txt"

\* C7: no two tickets of a session carry the same ticket ID, and within one
\* booking the ID of the ticket text is the ID of both download names.
TicketIdUniquePerBooking ==
    /\ TicketIdSharedByArtifacts
    /\ (HasTicket /\ remembered.id # NoText) => remembered.id # ticket_id

\* C8: a ticket has a cab section exactly when the toggle is true in its run;
\* then pickup = the ticket's destination station, drop, car type and cab
\* amount are those selected in the run, and the grand total is metro + cab;
\* with the toggle false there is no cab section and the amount is the metro
\* fare.
CabSectionMatchesToggle ==
    HasTicket =>
        /\ HasCabSection(ticket_text) = show_cab_details
        /\ show_cab_details =>
              /\ Len(ticket_text) = 20
              /\ ticket_text[9] = "To        : " \o destination_station
              /\ ticket_text[10] = "Amount    : ₹" \o ToString(30 * ticket_count)
              /\ ticket_text[13] = "Car Type  : " \o car_widget
              /\ ticket_text[14] = "Pickup    : " \o destination_station
              /\ ticket_text[15] = "Drop      : " \o drop_widget
              /\ ticket_text[16] = "Amount    : ₹"
                     \o ToString(ticket_count * RefRate(car_widget))
              /\ ticket_text[18] = "GRAND TOTAL : ₹"
                     \o ToString(30 * ticket_count
                                 + ticket_count * RefRate(car_widget))
        /\ ~show_cab_details =>
              /\ Len(ticket_text) = 11
              /\ ticket_text[7] = "To        : " \o destination_station
              /\ ticket_text[9] = "Amount    : ₹" \o ToString(30 * ticket_count)
              /\ \A i \in 1..Len(ticket_text) :
                     ticket_text[i] \notin
                         {"Pickup    : " \o destination_station,
                          "GRAND TOTAL : ₹" \o ToString(grand_total)}

UnifiedTicketProduced ==
    /\ HasTicket
    /\ HasCabSection(ticket_text)
    /\ ticket_count = 2
    /\ car_widget = "Sedan"
    /\ source_station # STATIONS[1]

\* C9: a ticket is on the page only in the run of a successful Book; the
\* page of any other run (edit, YES, NO, download) shows no ticket, QR text,
\* download or audio.
TicketNotRetained ==
    /\ interaction # "book" => NothingProduced
    /\ HasTicket => (interaction = "book" /\ error_msg = NoText)

TicketGoneAfterDownload ==
    /\ interaction = "download"
    /\ NothingProduced

\* C10: a Book run handles no YES or NO, so the toggle and the label of the
\* primary button are those of the page the user pressed it on; a ticket
\* has a cab section exactly when the label pressed was "Book Metro & Cab",
\* and a ticket from "Book Metro Only" charges the metro fare alone.
TicketMatchesPressedLabel ==
    [][ interaction' = "book" =>
            /\ show_cab_details' = show_cab_details
            /\ btn_text' = btn_text
            /\ HasTicket' =>
                  /\ btn_text \in {BookBothLabel, BookMetroLabel}
                  /\ HasCabSection(ticket_text') = (btn_text = BookBothLabel)
                  /\ btn_text = BookMetroLabel =>
                        ticket_text'[9] = "Amount    : ₹"
                                             \o ToString(30 * ticket_count) ]_vars

BookedMetroAndCab ==
    /\ interaction = "book"
    /\ HasTicket
    /\ btn_text = BookBothLabel
    /\ HasCabSection(ticket_text)

====
